---- MODULE Spec2Model ----
(***************************************************************************)
(* Model of the gorchestrator-poc generation pipeline:                     *)
(*   internal/storage/storage.go       the task ledger (SQLite tables)     *)
(*   internal/orchestrator/orchestrator.go  GenerateTodoAPI, executeTask,  *)
(*                                     cleanLLMOutput, PrintSummary        *)
(*   cmd main                          one CLI invocation per run          *)
(*                                                                         *)
(* Text is a sequence of one-character strings.  A nullable SQL column is  *)
(* a record [Valid, String] like database/sql.NullString.  Timestamps are  *)
(* not modelled except for the wall clock that feeds the run identifier.   *)
(***************************************************************************)
EXTENDS Integers, Sequences, FiniteSets, TLC

\* ------------------------------------------------------------------ bounds
\* Wall-clock ticks the model lets pass (time.Now() is read in ticks).
MaxTick == 3
\* Invocations of the CLI against the same ledger file.
MaxRuns == 2
\* direct calls of Storage methods on one handle
MaxCalls == 3
\* lines of a raw provider text handed to cleanLLMOutput
MaxLines == 4

\* ------------------------------------------------------- program constants
\* Clock ticks per Unix second: time.Now().Unix() truncates to seconds.
TicksPerSec == 2
\* The fixed pipeline has four tasks.
NumTasks == 4
\* SafetyLimits.MaxRetries as set by New.
MaxRetries == 3
\* SafetyLimits.MaxOutputSize as set by New, scaled from 10MB to 2 bytes so
\* that the texts of the model lie on both sides of the limit.
MaxOutputSize == 2

StatusPending == "pending"
StatusRunning == "running"
StatusComplete == "complete"
StatusFailed == "failed"

TaskTypes ==
  <<"generate_models", "generate_handlers", "generate_repository", "generate_tests">>

TaskInputs ==
  <<"Todo with CRUD", "REST endpoints", "SQLite storage", "Unit tests">>

\* ------------------------------------------------------------------- text
NL == "\n"
\* the backquote character (ASCII 96), written ^ here
BT == "^"
Fence == <<BT, BT, BT>>

\* unicode.IsSpace restricted to the alphabet of the model
IsSpace(c) == c \in {" ", NL}

RECURSIVE TrimLeftSpace(_)
TrimLeftSpace(s) ==
  IF s # <<>> /\ IsSpace(Head(s)) THEN TrimLeftSpace(Tail(s)) ELSE s

RECURSIVE TrimRightSpace(_)
TrimRightSpace(s) ==
  IF s # <<>> /\ IsSpace(s[Len(s)])
  THEN TrimRightSpace(SubSeq(s, 1, Len(s) - 1))
  ELSE s

\* strings.TrimSpace
TrimSpace(s) == TrimRightSpace(TrimLeftSpace(s))

\* strings.HasPrefix
HasPrefix(s, p) == Len(s) >= Len(p) /\ SubSeq(s, 1, Len(p)) = p

\* strings.HasSuffix
HasSuffix(s, p) == Len(s) >= Len(p) /\ SubSeq(s, Len(s) - Len(p) + 1, Len(s)) = p

\* strings.TrimPrefix
TrimPrefix(s, p) == IF HasPrefix(s, p) THEN SubSeq(s, Len(p) + 1, Len(s)) ELSE s

\* strings.TrimSuffix
TrimSuffix(s, p) == IF HasSuffix(s, p) THEN SubSeq(s, 1, Len(s) - Len(p)) ELSE s

\* strings.Split(s, "\n"): always at least one line
RECURSIVE SplitFrom(_, _)
SplitFrom(s, cur) ==
  IF s = <<>> THEN <<cur>>
  ELSE IF Head(s) = NL THEN <<cur>> \o SplitFrom(Tail(s), <<>>)
  ELSE SplitFrom(Tail(s), Append(cur, Head(s)))

SplitLines(s) == SplitFrom(s, <<>>)

\* strings.Join(lines, "\n")
RECURSIVE JoinLines(_)
JoinLines(lines) ==
  IF lines = <<>> THEN <<>>
  ELSE IF Len(lines) = 1 THEN lines[1]
  ELSE lines[1] \o <<NL>> \o JoinLines(Tail(lines))

\* a fence test that does not trim the line
IsFenceLineRaw(line) == HasPrefix(line, Fence)

\* a line whose trimmed form starts with the fence marker
IsFenceLine(line) == HasPrefix(TrimSpace(line), Fence)

\* the loop of cleanLLMOutput: toggle on fence lines, keep lines inside
RECURSIVE ScanLines(_, _)
ScanLines(lines, inCode) ==
  IF lines = <<>> THEN <<>>
  ELSE IF IsFenceLine(Head(lines)) THEN ScanLines(Tail(lines), ~inCode)
  ELSE IF inCode THEN <<Head(lines)>> \o ScanLines(Tail(lines), inCode)
  ELSE ScanLines(Tail(lines), inCode)

\* cleanLLMOutput without the TrimSpace of the joined lines
cleanLLMOutputNoTrim(raw) ==
  LET t == TrimSpace(raw) IN
  IF HasPrefix(t, Fence)
  THEN JoinLines(ScanLines(SplitLines(t), FALSE))
  ELSE IF HasPrefix(t, <<BT>>) /\ HasSuffix(t, <<BT>>)
       THEN TrimSuffix(TrimPrefix(t, <<BT>>), <<BT>>)
       ELSE t

cleanLLMOutput(raw) ==
  LET t == TrimSpace(raw) IN
  IF HasPrefix(t, Fence)
  THEN TrimSpace(JoinLines(ScanLines(SplitLines(t), FALSE)))
  ELSE IF HasPrefix(t, <<BT>>) /\ HasSuffix(t, <<BT>>)
       THEN TrimSuffix(TrimPrefix(t, <<BT>>), <<BT>>)
       ELSE t

\* Responses the Completion Provider may return in the model:
\* a fenced block with a language tag followed by commentary,
RespFenced == <<BT, BT, BT, "g", NL, "a", NL, BT, BT, BT, NL, "x">>
\* and plain text larger than MaxOutputSize.
RespLarge == <<"a", "a", "a">>

Responses == {RespFenced, RespLarge}

\* a provider that answers with no code: the empty text, or a fenced block
\* with nothing between its markers
RespNone == <<>>
RespFenceOnly == Fence \o <<NL>> \o Fence
EmptyReplies == {RespNone, RespFenceOnly}

\* ----------------------------------------------------------------- ledger
\* sql.NullString
Null == [Valid |-> FALSE, String |-> <<>>]
Str(s) == [Valid |-> TRUE, String |-> s]

\* time.Now().Unix()
Unix(t) == t \div TicksPerSec

\* fmt.Sprintf("run_%d", ...) and fmt.Sprintf("%s_task_%03d", runID, k)
RunID(t) == Unix(t)
TaskID(run, k) == [run |-> run, ord |-> k]

\* a task list whose tasks are born running
RunTaskStarted(run, k) ==
  [ID |-> TaskID(run, k), Type |-> TaskTypes[k], Input |-> TaskInputs[k],
   Status |-> StatusRunning]

\* the task list of GenerateTodoAPI
RunTask(run, k) ==
  [ID |-> TaskID(run, k), Type |-> TaskTypes[k], Input |-> TaskInputs[k],
   Status |-> StatusPending]

\* INSERT OR REPLACE: an existing id does not make the insert fail
CreateTaskAlways(tbl, task) == TRUE

\* INSERT INTO tasks: the PRIMARY KEY rejects an existing id
CreateTaskOK(tbl, task) == task.ID \notin DOMAIN tbl

CreateTask(tbl, task) ==
  [id \in DOMAIN tbl \cup {task.ID} |->
     IF id = task.ID
     THEN [type |-> task.Type, input |-> task.Input, output |-> Null,
           status |-> task.Status, error |-> Null]
     ELSE tbl[id]]

\* UPDATE tasks SET status = ? WHERE id = ?   (no row: nothing changes)
UpdateTaskStatus(tbl, id, status) ==
  [i \in DOMAIN tbl |-> IF i = id THEN [tbl[i] EXCEPT !.status = status] ELSE tbl[i]]

\* UPDATE tasks SET output = ? WHERE id = ?
UpdateTaskOutput(tbl, id, output) ==
  [i \in DOMAIN tbl |-> IF i = id THEN [tbl[i] EXCEPT !.output = Str(output)] ELSE tbl[i]]

\* UPDATE tasks SET error = ?, status = failed WHERE id = ?
\* SET error = ? without status = failed
UpdateTaskErrorOnly(tbl, id, msg) ==
  [i \in DOMAIN tbl |->
     IF i = id THEN [tbl[i] EXCEPT !.error = Str(msg)] ELSE tbl[i]]

\* SET error = ?, status = failed WHERE id = ?
UpdateTaskError(tbl, id, msg) ==
  [i \in DOMAIN tbl |->
     IF i = id THEN [tbl[i] EXCEPT !.error = Str(msg), !.status = StatusFailed]
     ELSE tbl[i]]

\* INSERT INTO files_generated: the FOREIGN KEY needs the task row, on a
\* connection whose foreign_keys pragma is on
SaveGeneratedFileOK(fk, tbl, taskID) == fk => taskID \in DOMAIN tbl

SaveGeneratedFile(fs, taskID, path, content) ==
  Append(fs, [task_id |-> taskID, file_path |-> path, content |-> content])

\* a counting loop over the rows of the newest run only
CountStatusLatestRun(tbl, st) ==
  Cardinality({id \in DOMAIN tbl :
                 /\ tbl[id].status = st
                 /\ \A o \in DOMAIN tbl : o.run <= id.run})

\* the counting loop shared by PrintSummary and writeStatusFile
CountStatus(tbl, st) == Cardinality({id \in DOMAIN tbl : tbl[id].status = st})

\* a summary that counts failed tasks as done
SummarySuccessCountsFailed(total, completed, failed) == completed + failed = total

\* PrintSummary's test for the success message: completed == len(tasks)
SummarySuccess(total, completed, failed) == completed = total

\* the artifact path of saveOutput, by task type
OutputPath(k) ==
  <<"internal/models/todo.go", "internal/handlers/todo_handler.go",
    "internal/repository/todo_repo.go", "tests/todo_handler_test.go">>[k]

\* ------------------------------------------------------------- provider
\* the -model flag of the CLI
Model == "codellama:7b"

\* what GET /api/tags can answer: no answer, a non-200 status, a body that
\* does not decode, and lists of model names
NoTags == [sent |-> FALSE, status |-> 0, decodes |-> FALSE, models |-> {}]
TagsResponses ==
  { NoTags,
    [sent |-> TRUE, status |-> 500, decodes |-> TRUE, models |-> {Model}],
    [sent |-> TRUE, status |-> 200, decodes |-> FALSE, models |-> {}],
    [sent |-> TRUE, status |-> 200, decodes |-> TRUE, models |-> {}],
    [sent |-> TRUE, status |-> 200, decodes |-> TRUE, models |-> {"codellama"}],
    [sent |-> TRUE, status |-> 200, decodes |-> TRUE,
     models |-> {"codellama", Model}] }

\* HealthCheck that accepts any non-empty model list
HealthCheckAnyModel(r, model) ==
  IF ~r.sent THEN "not reachable"
  ELSE IF r.status # 200 THEN "status"
  ELSE IF ~r.decodes THEN "decode"
  ELSE IF r.models = {} THEN "model not found"
  ELSE ""

\* OllamaClient.HealthCheck: the error it returns ("" is nil)
HealthCheck(r, model) ==
  IF ~r.sent THEN "not reachable"
  ELSE IF r.status # 200 THEN "status"
  ELSE IF ~r.decodes THEN "decode"
  ELSE IF model \notin r.models THEN "model not found"
  ELSE ""

\* ------------------------------------------------------------- validator
\* what cmd.Run() returns: nil, a non-zero exit, or the kill at the timeout
RunErrs == {"", "exit status 1", "signal: killed"}
\* what gofmt -l writes to stdout: nothing, a blank line, a file name
FmtStdouts == {<<>>, <<NL>>, <<"a", NL>>}
\* what go vet and go build write to stderr; their stdout stays empty, so
\* Output is stderr whether or not stderr is empty
Stderrs == {<<>>, <<"x">>}

\* fmt.Errorf: nil is "", a wrapped error carries its prefix
Wrap(prefix, err) == <<prefix, err>>
NilError == <<>>

\* checkFormat, from the exit of gofmt and what it listed
checkFormat(err, stdout) ==
  [Tool |-> "gofmt",
   Success |-> (TrimSpace(stdout) = <<>>) /\ err = "",
   Output |-> IF TrimSpace(stdout) # <<>> THEN <<"F", NL>> \o stdout
              ELSE stdout,
   Error |-> IF err # "" THEN Wrap("gofmt error", err) ELSE NilError]

\* runVet, from the exit of go vet and its stderr
runVet(err, stderr) ==
  [Tool |-> "go vet",
   Success |-> err = "",
   Output |-> stderr,
   Error |-> IF err # "" THEN Wrap("go vet found issues", err) ELSE NilError]

\* tryBuild, from the exit of go build and its stderr
tryBuild(err, stderr) ==
  [Tool |-> "go build",
   Success |-> err = "",
   Output |-> stderr,
   Error |-> IF err # "" THEN Wrap("build failed", err) ELSE NilError]

\* ------------------------------------------------------------------ state
VARIABLES
  now,        \* wall clock, in ticks
  runs,       \* CLI invocations started so far
  tasks,      \* ledger table tasks: id -> row
  files,      \* ledger table files_generated, in id order
  disk,       \* artifact files under workDir: task ordinal -> NullString
  pc,         \* position of the current invocation
  runID,      \* runID of GenerateTodoAPI
  cur,        \* index of the range loops over the task list
  ctxDone,    \* ctx.Done() is closed (deadline elapsed or caller cancelled)
  cleaned,    \* executeTask's local cleaned
  errCause,   \* the error executeTask returned to the loop
  llmCalls,   \* calls of llm.Complete in this run, per task ordinal
  result,     \* what GenerateTodoAPI returned
  summary,    \* what PrintSummary printed last
  statusFile, \* content of status.json
  runHist,    \* run identifiers generated so far, in order
  cutOff,     \* ordinal of the task whose provider call the deadline cut off
  exitCode,   \* exit status of the last CLI process (-1: none has exited)
  fkOn,       \* PRAGMA foreign_keys of the connection the pool hands out
  txn,        \* the open transaction of CleanAllTasks
  apiRes,     \* the last call of a Storage method and the error it returned
  valResults, \* the results slice of ValidateAll
  tagsResp,   \* the answer of the tags endpoint to this process
  valReport,  \* what main's validation stage printed in this process
  cleanIn,    \* a raw provider text handed to cleanLLMOutput
  cleanOut,   \* the results of applying cleanLLMOutput once, twice
  httpIn,     \* the HTTP exchange behind one call of Complete
  httpOut,    \* what that call of Complete returned
  audit,      \* what the current run did: artifacts written, a ledger write failed
  replies     \* the response texts the provider gives in this deployment

vars ==
  <<now, runs, tasks, files, disk, pc, runID, cur, ctxDone, cleaned, errCause,
    llmCalls, result, summary, statusFile, runHist, cutOff,
    exitCode, fkOn, txn, apiRes, valResults, tagsResp, valReport,
    cleanIn, cleanOut, httpIn, httpOut, audit, replies>>

\* inputs and results of the functions that are checked on their own
pureVars == <<cleanIn, cleanOut, httpIn, httpOut>>

\* state of the ledger handle, of direct Storage calls and of the validator
handleVars == <<fkOn, txn, apiRes, valResults, pureVars, replies>>

\* state of main around GenerateTodoAPI
cliVars == <<tagsResp, valReport>>

\* main has not reached its validation stage
NoReport ==
  [decided |-> FALSE, ran |-> FALSE, allPassed |-> FALSE, formatted |-> FALSE]

\* Complete has not returned
NoReply == [returned |-> FALSE, text |-> <<>>, err |-> ""]
NoExchange ==
  [ctxDone |-> FALSE, sent |-> FALSE, status |-> 0, decodes |-> FALSE,
   done |-> FALSE, response |-> <<>>]

NoResult == [kind |-> "none", ord |-> 0, type |-> "", cause |-> ""]
NoSummary == [shown |-> FALSE, total |-> 0, completed |-> 0, failed |-> 0, success |-> FALSE]
NoStatusFile ==
  [written |-> FALSE, total |-> 0, completed |-> 0, failed |-> 0,
   completed_flag |-> FALSE, timestamp |-> 0]

\* no transaction is open
NoTxn == [open |-> FALSE, step |-> "", tasks |-> <<>>, files |-> <<>>]

\* no Storage method has been called directly
NoCall == [n |-> 0, op |-> "", id |-> 0, arg |-> "", err |-> ""]

\* the run has written no artifact and no ledger write of it has failed
NoAudit == [wrote |-> {}, dbFault |-> FALSE]

\* the identity of the current run's k-th task
CurID(k) == TaskID(runID, k)

InitRun ==
  /\ now = 0
  /\ runs = 0
  /\ tasks = <<>>
  /\ files = <<>>
  /\ disk = [k \in 1..NumTasks |-> Null]
  /\ pc = "idle"
  /\ runID = 0
  /\ cur = 0
  /\ ctxDone = FALSE
  /\ cleaned = <<>>
  /\ errCause = ""
  /\ llmCalls = [k \in 1..NumTasks |-> 0]
  /\ result = NoResult
  /\ summary = NoSummary
  /\ statusFile = NoStatusFile
  /\ runHist = <<>>
  /\ cutOff = 0
  /\ exitCode = -1
  /\ fkOn = TRUE
  /\ txn = NoTxn
  /\ apiRes = NoCall
  /\ valResults = <<>>
  /\ tagsResp = NoTags
  /\ valReport = NoReport
  /\ audit = NoAudit

Init ==
  /\ InitRun
  /\ replies = Responses
  /\ cleanIn = <<>>
  /\ cleanOut = <<>>
  /\ httpIn = NoExchange
  /\ httpOut = NoReply

\* a ledger write of the run returned; ok is FALSE when it returned an error
LedgerWrite(ok) == audit' = [audit EXCEPT !.dbFault = @ \/ ~ok]

\* GenerateTodoAPI returns err (or nil when kind = "ok")
Return(kind, ord, cause) ==
  /\ result' = [kind |-> kind, ord |-> ord,
                type |-> IF ord = 0 THEN "" ELSE TaskTypes[ord], cause |-> cause]
  /\ pc' = "returned"

\* a loop that tries a task again when its prompt could not be loaded
TaskErrorRetryPrompt(cause) ==
  /\ errCause' = cause
  /\ pc' = IF cause = "prompt" THEN "loop" ELSE "logError"

\* executeTask returns err to the loop, which calls logError next
TaskError(cause) ==
  /\ errCause' = cause
  /\ pc' = "logError"

\* main: a new process parses its flags and calls InitDB; log.Fatal ends it
\* with status 1 when the ledger cannot be opened
MainStart ==
  /\ pc = "idle"
  /\ runs < MaxRuns
  /\ \E dbOk \in BOOLEAN, resp \in TagsResponses :
       IF dbOk
       THEN /\ pc' = "health"
            /\ tagsResp' = resp
            /\ exitCode' = -1
       ELSE /\ pc' = "idle"
            /\ tagsResp' = NoTags
            /\ exitCode' = 1
  /\ summary' = NoSummary
  /\ valReport' = NoReport
  /\ UNCHANGED <<now, runs, tasks, files, disk, runID, cur, ctxDone, cleaned,
                 errCause, llmCalls, result, statusFile, runHist, cutOff>>
  /\ UNCHANGED <<audit, handleVars>>

\* main: ollamaClient.HealthCheck(ctx); os.Exit(1) when it fails
HealthCheckStep ==
  /\ pc = "health"
  /\ IF HealthCheck(tagsResp, Model) = ""
     THEN /\ pc' = "start"
          /\ tagsResp' = NoTags
          /\ UNCHANGED exitCode
     ELSE /\ pc' = "idle"
          /\ exitCode' = 1
          /\ UNCHANGED tagsResp
  /\ UNCHANGED <<now, runs, tasks, files, disk, runID, cur, ctxDone, cleaned,
                 errCause, llmCalls, result, summary, statusFile, runHist,
                 cutOff, valReport>>
  /\ UNCHANGED <<audit, handleVars>>

\* main starts GenerateTodoAPI at wall-clock time t: startTime, the context
\* with timeout, MkdirAll of the work directory, the run identifier
StartRun ==
  /\ pc = "start"
  /\ runs < MaxRuns
  /\ \E t \in (now + 1)..MaxTick, ok \in BOOLEAN :
       /\ now' = t
       /\ runs' = runs + 1
       /\ summary' = NoSummary
       /\ IF ok
          THEN /\ runID' = RunID(t)
               /\ runHist' = Append(runHist, RunID(t))
               /\ cur' = 1
               /\ pc' = "create"
               /\ UNCHANGED result
          ELSE /\ Return("mkdir", 0, "mkdir")
               /\ UNCHANGED <<runID, runHist, cur>>
  /\ UNCHANGED <<tasks, files, disk, ctxDone, cleaned, errCause, llmCalls,
                 statusFile, cutOff>>
  /\ exitCode' = -1
  /\ UNCHANGED <<audit, cliVars, handleVars>>

\* the context reports Done: MaxRuntime elapsed or the caller cancelled.
\* The code looks at the context at the head of the loop and inside the
\* provider call, so the model lets it become Done at these two places.
Cancel ==
  /\ pc \in {"loop", "inLLM"}
  /\ ~ctxDone
  /\ ctxDone' = TRUE
  /\ cutOff' = IF pc = "inLLM" THEN cur ELSE cutOff
  /\ UNCHANGED <<now, runs, tasks, files, disk, pc, runID, cur, cleaned, errCause,
                 llmCalls, result, summary, statusFile, runHist>>
  /\ UNCHANGED <<audit, exitCode, cliVars, handleVars>>

\* a task list that is stored lazily: execution starts after the first row
CreateStepEager ==
  /\ pc = "create"
  /\ \E ok \in BOOLEAN :
       /\ LedgerWrite(ok /\ CreateTaskOK(tasks, RunTask(runID, cur)))
       /\ IF ok /\ CreateTaskOK(tasks, RunTask(runID, cur))
          THEN /\ tasks' = CreateTask(tasks, RunTask(runID, cur))
               /\ cur' = 1
               /\ pc' = "loop"
               /\ UNCHANGED result
          ELSE /\ Return("create", cur, IF ok THEN "duplicate" ELSE "fault")
               /\ UNCHANGED <<tasks, cur>>
  /\ UNCHANGED <<now, runs, files, disk, runID, ctxDone, cleaned, errCause,
                 llmCalls, summary, statusFile, runHist, cutOff>>
  /\ UNCHANGED <<exitCode, cliVars, handleVars>>

\* one iteration of the loop that stores the task list
CreateStep ==
  /\ pc = "create"
  /\ \E ok \in BOOLEAN :
       /\ LedgerWrite(ok /\ CreateTaskOK(tasks, RunTask(runID, cur)))
       /\ IF ok /\ CreateTaskOK(tasks, RunTask(runID, cur))
          THEN /\ tasks' = CreateTask(tasks, RunTask(runID, cur))
               /\ IF cur < NumTasks
                  THEN cur' = cur + 1 /\ pc' = "create"
                  ELSE cur' = 1 /\ pc' = "loop"
               /\ UNCHANGED result
          ELSE /\ Return("create", cur, IF ok THEN "duplicate" ELSE "fault")
               /\ UNCHANGED <<tasks, cur>>
  /\ UNCHANGED <<now, runs, files, disk, runID, ctxDone, cleaned, errCause,
                 llmCalls, summary, statusFile, runHist, cutOff>>
  /\ UNCHANGED <<exitCode, cliVars, handleVars>>

\* a loop head that does not look at the context
LoopStepNoDeadline ==
  /\ pc = "loop"
  /\ IF cur > NumTasks
     THEN /\ pc' = "genMain"
          /\ UNCHANGED <<tasks, result, errCause, audit>>
     ELSE \E ok \in BOOLEAN :
            /\ LedgerWrite(ok)
            /\ IF ok
               THEN /\ tasks' = UpdateTaskStatus(tasks, CurID(cur), StatusRunning)
                    /\ pc' = "loadPrompt"
                    /\ UNCHANGED <<result, errCause>>
               ELSE /\ TaskError("status")
                    /\ UNCHANGED <<tasks, result>>
  /\ UNCHANGED <<now, runs, files, disk, runID, cur, ctxDone, cleaned,
                 llmCalls, summary, statusFile, runHist, cutOff>>
  /\ UNCHANGED <<exitCode, cliVars, handleVars>>

\* the head of the execution loop: range exhausted, ctx.Done(), or default
\* with the first statement of executeTask (status := running)
LoopStep ==
  /\ pc = "loop"
  /\ IF cur > NumTasks
     THEN /\ pc' = "genMain"
          /\ UNCHANGED <<tasks, result, errCause, audit>>
     ELSE IF ctxDone
     THEN /\ Return("timeout", 0, "timeout")
          /\ UNCHANGED <<tasks, errCause, audit>>
     ELSE \E ok \in BOOLEAN :
            /\ LedgerWrite(ok)
            /\ IF ok
               THEN /\ tasks' = UpdateTaskStatus(tasks, CurID(cur), StatusRunning)
                    /\ pc' = "loadPrompt"
                    /\ UNCHANGED <<result, errCause>>
               ELSE /\ TaskError("status")
                    /\ UNCHANGED <<tasks, result>>
  /\ UNCHANGED <<now, runs, files, disk, runID, cur, ctxDone, cleaned,
                 llmCalls, summary, statusFile, runHist, cutOff>>
  /\ UNCHANGED <<exitCode, cliVars, handleVars>>

\* loadPrompt: the prompt file is read or is missing
LoadPrompt ==
  /\ pc = "loadPrompt"
  /\ \E ok \in BOOLEAN :
       IF ok THEN pc' = "callLLM" /\ UNCHANGED errCause
       ELSE TaskError("prompt")
  /\ UNCHANGED <<now, runs, tasks, files, disk, runID, cur, ctxDone, cleaned,
                 llmCalls, result, summary, statusFile, runHist, cutOff>>
  /\ UNCHANGED <<audit, exitCode, cliVars, handleVars>>

\* o.llm.Complete is entered
CallLLM ==
  /\ pc = "callLLM"
  /\ llmCalls' = [llmCalls EXCEPT ![cur] = @ + 1]
  /\ pc' = "inLLM"
  /\ UNCHANGED <<now, runs, tasks, files, disk, runID, cur, ctxDone, cleaned,
                 errCause, result, summary, statusFile, runHist, cutOff>>
  /\ UNCHANGED <<audit, exitCode, cliVars, handleVars>>

\* an executeTask that treats an empty sanitized output as a failure
LLMReturnRejectEmpty ==
  /\ pc = "inLLM"
  /\ \E response \in replies :
       IF Len(cleanLLMOutput(response)) > MaxOutputSize
       THEN /\ TaskError("size")
            /\ UNCHANGED cleaned
       ELSE IF cleanLLMOutput(response) = <<>>
       THEN /\ TaskError("empty")
            /\ UNCHANGED cleaned
       ELSE /\ cleaned' = cleanLLMOutput(response)
            /\ pc' = "writeFile"
            /\ UNCHANGED errCause
  /\ UNCHANGED <<now, runs, tasks, files, disk, runID, cur, ctxDone,
                 llmCalls, result, summary, statusFile, runHist, cutOff>>
  /\ UNCHANGED <<audit, exitCode, cliVars, handleVars>>

\* Complete returns a response: cleanLLMOutput and the size check
LLMReturn ==
  /\ pc = "inLLM"
  /\ \E response \in replies :
       IF Len(cleanLLMOutput(response)) > MaxOutputSize
       THEN /\ TaskError("size")
            /\ UNCHANGED cleaned
       ELSE /\ cleaned' = cleanLLMOutput(response)
            /\ pc' = "writeFile"
            /\ UNCHANGED errCause
  /\ UNCHANGED <<now, runs, tasks, files, disk, runID, cur, ctxDone,
                 llmCalls, result, summary, statusFile, runHist, cutOff>>
  /\ UNCHANGED <<audit, exitCode, cliVars, handleVars>>

\* a provider error that is retried up to MaxRetries calls
LLMErrorRetry ==
  /\ pc = "inLLM"
  /\ pc' = IF llmCalls[cur] < MaxRetries THEN "callLLM" ELSE "markFailed"
  /\ UNCHANGED <<now, runs, tasks, files, disk, runID, cur, ctxDone, cleaned,
                 errCause, llmCalls, result, summary, statusFile, runHist, cutOff>>
  /\ UNCHANGED <<audit, exitCode, cliVars, handleVars>>

\* Complete returns an error (provider failure or cancelled context)
LLMError ==
  /\ pc = "inLLM"
  /\ pc' = "markFailed"
  /\ UNCHANGED <<now, runs, tasks, files, disk, runID, cur, ctxDone, cleaned,
                 errCause, llmCalls, result, summary, statusFile, runHist, cutOff>>
  /\ UNCHANGED <<audit, exitCode, cliVars, handleVars>>

\* executeTask line 240: status := failed, the write's error is dropped
MarkFailed ==
  /\ pc = "markFailed"
  /\ \E ok \in BOOLEAN :
       /\ LedgerWrite(ok)
       /\ tasks' = IF ok THEN UpdateTaskStatus(tasks, CurID(cur), StatusFailed) ELSE tasks
  /\ TaskError("llm")
  /\ UNCHANGED <<now, runs, files, disk, runID, cur, ctxDone, cleaned,
                 llmCalls, result, summary, statusFile, runHist, cutOff>>
  /\ UNCHANGED <<exitCode, cliVars, handleVars>>

\* saveOutput: MkdirAll and WriteFile of the artifact; when the directory
\* or the file cannot be created nothing is written
WriteArtifact ==
  /\ pc = "writeFile"
  /\ \E ok \in BOOLEAN :
       IF ok
       THEN /\ disk' = [disk EXCEPT ![cur] = Str(cleaned)]
            /\ audit' = [audit EXCEPT !.wrote = @ \cup {cur}]
            /\ pc' = "recordFile"
            /\ UNCHANGED errCause
       ELSE /\ TaskError("write")
            /\ UNCHANGED <<disk, audit>>
  /\ UNCHANGED <<now, runs, tasks, files, runID, cur, ctxDone, cleaned,
                 llmCalls, result, summary, statusFile, runHist, cutOff>>
  /\ UNCHANGED <<exitCode, cliVars, handleVars>>

\* saveOutput: SaveGeneratedFile
RecordFile ==
  /\ pc = "recordFile"
  /\ \E ok \in BOOLEAN :
       /\ LedgerWrite(ok /\ SaveGeneratedFileOK(fkOn, tasks, CurID(cur)))
       /\ IF ok /\ SaveGeneratedFileOK(fkOn, tasks, CurID(cur))
          THEN /\ files' = SaveGeneratedFile(files, CurID(cur), OutputPath(cur), cleaned)
               /\ pc' = "setComplete"
               /\ UNCHANGED errCause
          ELSE /\ TaskError("record")
               /\ UNCHANGED files
  /\ UNCHANGED <<now, runs, tasks, disk, runID, cur, ctxDone, cleaned,
                 llmCalls, result, summary, statusFile, runHist, cutOff>>
  /\ UNCHANGED <<exitCode, cliVars, handleVars>>

\* executeTask line 264: status := complete
SetComplete ==
  /\ pc = "setComplete"
  /\ \E ok \in BOOLEAN :
       /\ LedgerWrite(ok)
       /\ IF ok
          THEN /\ tasks' = UpdateTaskStatus(tasks, CurID(cur), StatusComplete)
               /\ pc' = "setOutput"
               /\ UNCHANGED errCause
          ELSE /\ TaskError("status")
               /\ UNCHANGED tasks
  /\ UNCHANGED <<now, runs, files, disk, runID, cur, ctxDone, cleaned,
                 llmCalls, result, summary, statusFile, runHist, cutOff>>
  /\ UNCHANGED <<exitCode, cliVars, handleVars>>

\* executeTask line 268: output := cleaned, then back to the loop
SetOutput ==
  /\ pc = "setOutput"
  /\ \E ok \in BOOLEAN :
       /\ LedgerWrite(ok)
       /\ IF ok
          THEN /\ tasks' = UpdateTaskOutput(tasks, CurID(cur), cleaned)
               /\ cur' = cur + 1
               /\ pc' = "loop"
               /\ UNCHANGED errCause
          ELSE /\ TaskError("output")
               /\ UNCHANGED <<tasks, cur>>
  /\ UNCHANGED <<now, runs, files, disk, runID, ctxDone, cleaned,
                 llmCalls, result, summary, statusFile, runHist, cutOff>>
  /\ UNCHANGED <<exitCode, cliVars, handleVars>>

\* a loop that logs the error of a task and goes on with the next task
LogErrorContinue ==
  /\ pc = "logError"
  /\ \E ok \in BOOLEAN :
       /\ LedgerWrite(ok)
       /\ tasks' = IF ok THEN UpdateTaskError(tasks, CurID(cur), <<errCause>>) ELSE tasks
  /\ pc' = "loop"
  /\ cur' = cur + 1
  /\ UNCHANGED <<now, runs, files, disk, runID, ctxDone, cleaned, errCause,
                 llmCalls, result, summary, statusFile, runHist, cutOff>>
  /\ UNCHANGED <<exitCode, cliVars, handleVars>>

\* logError, then the loop returns the wrapped task error
LogError ==
  /\ pc = "logError"
  /\ \E ok \in BOOLEAN :
       /\ LedgerWrite(ok)
       /\ tasks' = IF ok THEN UpdateTaskError(tasks, CurID(cur), <<errCause>>) ELSE tasks
  /\ Return("task", cur, errCause)
  /\ UNCHANGED <<now, runs, files, disk, runID, cur, ctxDone, cleaned, errCause,
                 llmCalls, summary, statusFile, runHist, cutOff>>
  /\ UNCHANGED <<exitCode, cliVars, handleVars>>

\* generateServerMain, generateGoMod, generateREADME: static files
GenerateServerMain ==
  /\ pc = "genMain"
  /\ \E ok \in BOOLEAN :
       IF ok THEN pc' = "genGoMod" /\ UNCHANGED result
       ELSE Return("post", 0, "server main")
  /\ UNCHANGED <<now, runs, tasks, files, disk, runID, cur, ctxDone, cleaned, errCause,
                 llmCalls, summary, statusFile, runHist, cutOff>>
  /\ UNCHANGED <<audit, exitCode, cliVars, handleVars>>

GenerateGoMod ==
  /\ pc = "genGoMod"
  /\ \E ok \in BOOLEAN :
       IF ok THEN pc' = "genREADME" /\ UNCHANGED result
       ELSE Return("post", 0, "go.mod")
  /\ UNCHANGED <<now, runs, tasks, files, disk, runID, cur, ctxDone, cleaned, errCause,
                 llmCalls, summary, statusFile, runHist, cutOff>>
  /\ UNCHANGED <<audit, exitCode, cliVars, handleVars>>

\* a README step that records its failure on the last task of the run
GenerateREADMEMarksTask ==
  /\ pc = "genREADME"
  /\ \E ok \in BOOLEAN :
       IF ok THEN pc' = "validate" /\ UNCHANGED <<result, tasks>>
       ELSE /\ Return("post", 0, "README")
            /\ tasks' = UpdateTaskError(tasks, CurID(NumTasks), <<"README">>)
  /\ UNCHANGED <<now, runs, files, disk, runID, cur, ctxDone, cleaned, errCause,
                 llmCalls, summary, statusFile, runHist, cutOff>>
  /\ UNCHANGED <<audit, exitCode, cliVars, handleVars>>

\* generateREADME: the README of the generated project
GenerateREADME ==
  /\ pc = "genREADME"
  /\ \E ok \in BOOLEAN :
       IF ok THEN pc' = "validate" /\ UNCHANGED result
       ELSE Return("post", 0, "README")
  /\ UNCHANGED <<now, runs, tasks, files, disk, runID, cur, ctxDone, cleaned, errCause,
                 llmCalls, summary, statusFile, runHist, cutOff>>
  /\ UNCHANGED <<audit, exitCode, cliVars, handleVars>>

\* validateGeneratedCode: file existence checks, a failure is only printed
ValidateGeneratedCode ==
  /\ pc = "validate"
  /\ pc' = "writeStatus"
  /\ UNCHANGED <<now, runs, tasks, files, disk, runID, cur, ctxDone, cleaned, errCause,
                 llmCalls, result, summary, statusFile, runHist, cutOff>>
  /\ UNCHANGED <<audit, exitCode, cliVars, handleVars>>

\* writeStatusFile (a failure is only printed), then return nil
WriteStatusFile ==
  /\ pc = "writeStatus"
  /\ \E ok \in BOOLEAN :
       statusFile' =
         IF ok
         THEN [written |-> TRUE,
               total |-> Cardinality(DOMAIN tasks),
               completed |-> CountStatus(tasks, StatusComplete),
               failed |-> CountStatus(tasks, StatusFailed),
               completed_flag |->
                 CountStatus(tasks, StatusComplete) = Cardinality(DOMAIN tasks),
               timestamp |-> Unix(now)]
         ELSE statusFile
  /\ Return("ok", 0, "")
  /\ UNCHANGED <<now, runs, tasks, files, disk, runID, cur, ctxDone, cleaned, errCause,
                 llmCalls, summary, runHist, cutOff>>
  /\ UNCHANGED <<audit, exitCode, cliVars, handleVars>>

\* ValidateAll as main uses it: the three results of one pass
ValidateAll(e1, o1, e2, o2, e3, o3) ==
  <<checkFormat(e1, o1), runVet(e2, o2), tryBuild(e3, o3)>>

\* PrintResults: allPassed
AllPassed(results) == \A i \in DOMAIN results : results[i].Success

\* the verdicts PrintResults can print, over every outcome of the checks
ChainVerdicts ==
  { AllPassed(ValidateAll(e1, o1, e2, o2, e3, o3)) :
      e1 \in RunErrs, o1 \in FmtStdouts, e2 \in RunErrs, o2 \in Stderrs,
      e3 \in RunErrs, o3 \in Stderrs }

\* main after GenerateTodoAPI returned nil: unless -skip-validation is set
\* or go is not installed, ValidateAll, PrintResults and FormatCode; every
\* failure is only printed
MainValidate ==
  /\ pc = "returned"
  /\ result.kind = "ok"
  /\ \E skip \in BOOLEAN, goFound \in BOOLEAN, fmtOk \in BOOLEAN,
        passed \in ChainVerdicts :
       valReport' =
         IF skip \/ ~goFound
         THEN [decided |-> TRUE, ran |-> FALSE, allPassed |-> FALSE,
               formatted |-> FALSE]
         ELSE [decided |-> TRUE, ran |-> TRUE,
               allPassed |-> passed,
               formatted |-> fmtOk]
  /\ pc' = "summary"
  /\ UNCHANGED <<now, runs, tasks, files, disk, runID, cur, ctxDone, cleaned,
                 errCause, llmCalls, result, summary, statusFile, runHist,
                 cutOff, exitCode, tagsResp>>
  /\ UNCHANGED <<audit, handleVars>>

\* an exit status that fails the process when a validation check failed
ExitStatusStrict(res, report) ==
  IF res.kind = "ok" /\ (report.ran => report.allPassed /\ report.formatted)
  THEN 0 ELSE 1

\* main: os.Exit(1) after a GenerateTodoAPI error, else the normal return
ExitStatus(res, report) == IF res.kind = "ok" THEN 0 ELSE 1

\* main calls PrintSummary after GenerateTodoAPI returned, on either path;
\* the process then ends and the ledger file stays for the next invocation
PrintSummary ==
  /\ \/ pc = "summary"
     \/ pc = "returned" /\ result.kind # "ok"
  /\ \E ok \in BOOLEAN :
       summary' =
         IF ok
         THEN [shown |-> TRUE,
               total |-> Cardinality(DOMAIN tasks),
               completed |-> CountStatus(tasks, StatusComplete),
               failed |-> CountStatus(tasks, StatusFailed),
               success |-> SummarySuccess(Cardinality(DOMAIN tasks),
                                          CountStatus(tasks, StatusComplete),
                                          CountStatus(tasks, StatusFailed))]
         ELSE NoSummary
  /\ pc' = "idle"
  /\ runID' = 0
  /\ cur' = 0
  /\ ctxDone' = FALSE
  /\ cleaned' = <<>>
  /\ errCause' = ""
  /\ llmCalls' = [k \in 1..NumTasks |-> 0]
  /\ result' = NoResult
  /\ cutOff' = 0
  /\ UNCHANGED <<now, runs, tasks, files, disk, statusFile, runHist>>
  /\ exitCode' = ExitStatus(result, valReport)
  /\ audit' = NoAudit
  /\ UNCHANGED <<cliVars, handleVars>>

Next ==
  \/ MainStart
  \/ HealthCheckStep
  \/ StartRun
  \/ Cancel
  \/ CreateStep
  \/ LoopStep
  \/ LoadPrompt
  \/ CallLLM
  \/ LLMReturn
  \/ LLMError
  \/ MarkFailed
  \/ WriteArtifact
  \/ RecordFile
  \/ SetComplete
  \/ SetOutput
  \/ LogError
  \/ GenerateServerMain
  \/ GenerateGoMod
  \/ GenerateREADME
  \/ ValidateGeneratedCode
  \/ WriteStatusFile
  \/ MainValidate
  \/ PrintSummary

Spec == Init /\ [][Next]_vars

\* the same program in front of a provider whose answers hold no code
InitEmpty ==
  /\ InitRun
  /\ replies = EmptyReplies
  /\ cleanIn = <<>>
  /\ cleanOut = <<>>
  /\ httpIn = NoExchange
  /\ httpOut = NoReply

SpecEmpty == InitEmpty /\ [][Next]_vars

\* the steps of GenerateTodoAPI between its call and its return
RunStep ==
  \/ CreateStep
  \/ LoopStep
  \/ LoadPrompt
  \/ CallLLM
  \/ LLMReturn
  \/ LLMError
  \/ MarkFailed
  \/ WriteArtifact
  \/ RecordFile
  \/ SetComplete
  \/ SetOutput
  \/ LogError
  \/ GenerateServerMain
  \/ GenerateGoMod
  \/ GenerateREADME
  \/ ValidateGeneratedCode
  \/ WriteStatusFile

\* GenerateTodoAPI runs on one goroutine that is never blocked for good:
\* ledger and filesystem calls return, and the provider call returns a
\* response or an error (its HTTP request carries the run's context)
SpecLive == Init /\ [][Next]_vars /\ WF_vars(RunStep)

\* ---------------------------------------------------------------------
\* Direct calls of the Storage methods on the handle InitDB returned

\* the identities, statuses and payloads the calls are made with
StoreIDs == {TaskID(0, 1), TaskID(0, 2)}
Statuses == {StatusPending, StatusRunning, StatusComplete, StatusFailed}
SomeOutput == <<"a">>
SomeError == <<"e">>
SomePath == "models.go"

\* the call that just returned, with its error ("" is nil)
Call(op, id, arg, err) ==
  [n |-> apiRes.n + 1, op |-> op, id |-> id, arg |-> arg, err |-> err]

\* no orchestrator run and no transaction is in progress
HandleFree == pc = "idle" /\ ~txn.open /\ apiRes.n < MaxCalls

runVars ==
  <<now, runs, disk, pc, runID, cur, ctxDone, cleaned, errCause, llmCalls,
    result, summary, statusFile, runHist, cutOff, exitCode, tagsResp,
    valReport, audit, replies>>

ApiCreateTask ==
  /\ HandleFree
  /\ \E id \in StoreIDs, st \in Statuses, ok \in BOOLEAN :
       LET task == [ID |-> id, Type |-> TaskTypes[1], Input |-> TaskInputs[1],
                    Status |-> st]
       IN IF ok /\ CreateTaskOK(tasks, task)
          THEN /\ tasks' = CreateTask(tasks, task)
               /\ apiRes' = Call("CreateTask", id, st, "")
          ELSE /\ tasks' = tasks
               /\ apiRes' = Call("CreateTask", id, st,
                                 IF ok THEN "constraint" ELSE "exec")
  /\ UNCHANGED <<runVars, files, fkOn, txn, valResults, pureVars>>

ApiUpdateTaskStatus ==
  /\ HandleFree
  /\ \E id \in StoreIDs, st \in Statuses, ok \in BOOLEAN :
       IF ok
       THEN /\ tasks' = UpdateTaskStatus(tasks, id, st)
            /\ apiRes' = Call("UpdateTaskStatus", id, st, "")
       ELSE /\ tasks' = tasks
            /\ apiRes' = Call("UpdateTaskStatus", id, st, "exec")
  /\ UNCHANGED <<runVars, files, fkOn, txn, valResults, pureVars>>

ApiUpdateTaskOutput ==
  /\ HandleFree
  /\ \E id \in StoreIDs, ok \in BOOLEAN :
       IF ok
       THEN /\ tasks' = UpdateTaskOutput(tasks, id, SomeOutput)
            /\ apiRes' = Call("UpdateTaskOutput", id, "", "")
       ELSE /\ tasks' = tasks
            /\ apiRes' = Call("UpdateTaskOutput", id, "", "exec")
  /\ UNCHANGED <<runVars, files, fkOn, txn, valResults, pureVars>>

ApiUpdateTaskError ==
  /\ HandleFree
  /\ \E id \in StoreIDs, ok \in BOOLEAN :
       IF ok
       THEN /\ tasks' = UpdateTaskError(tasks, id, SomeError)
            /\ apiRes' = Call("UpdateTaskError", id, "", "")
       ELSE /\ tasks' = tasks
            /\ apiRes' = Call("UpdateTaskError", id, "", "exec")
  /\ UNCHANGED <<runVars, files, fkOn, txn, valResults, pureVars>>

ApiSaveGeneratedFile ==
  /\ HandleFree
  /\ \E id \in StoreIDs, ok \in BOOLEAN :
       IF ok /\ SaveGeneratedFileOK(fkOn, tasks, id)
       THEN /\ files' = SaveGeneratedFile(files, id, SomePath, SomeOutput)
            /\ apiRes' = Call("SaveGeneratedFile", id, "", "")
       ELSE /\ files' = files
            /\ apiRes' = Call("SaveGeneratedFile", id, "",
                              IF ok THEN "constraint" ELSE "exec")
  /\ UNCHANGED <<runVars, tasks, fkOn, txn, valResults, pureVars>>

\* database/sql closes a connection older than ConnMaxLifetime (or one the
\* driver reports bad) and opens a new one; the PRAGMA of InitDB was
\* executed on the old connection only
ConnRecycle ==
  /\ pc = "idle"
  /\ ~txn.open
  /\ fkOn
  /\ fkOn' = FALSE
  /\ UNCHANGED <<runVars, tasks, files, txn, apiRes, valResults, pureVars>>

\* the deferred tx.Rollback() keeps the rows the transaction deleted deleted
RollbackNone(saved, current) == current

\* the deferred tx.Rollback(): the tables are again what they were at Begin
Rollback(saved, current) == saved

\* CleanAllTasks returns err from step; the deferred Rollback runs
CleanFails(step) ==
  /\ tasks' = Rollback(txn.tasks, tasks)
  /\ files' = Rollback(txn.files, files)
  /\ txn' = NoTxn
  /\ apiRes' = Call("CleanAllTasks", 0, step, "exec")

\* CleanAllTasks: s.db.Begin()
CleanBegin ==
  /\ HandleFree
  /\ \E ok \in BOOLEAN :
       IF ok
       THEN /\ txn' = [open |-> TRUE, step |-> "files",
                       tasks |-> tasks, files |-> files]
            /\ UNCHANGED apiRes
       ELSE /\ apiRes' = Call("CleanAllTasks", 0, "begin", "exec")
            /\ UNCHANGED txn
  /\ UNCHANGED <<runVars, tasks, files, fkOn, valResults, pureVars>>

\* CleanAllTasks: DELETE FROM files_generated
CleanDeleteFiles ==
  /\ txn.open
  /\ txn.step = "files"
  /\ \E ok \in BOOLEAN :
       IF ok
       THEN /\ files' = <<>>
            /\ txn' = [txn EXCEPT !.step = "tasks"]
            /\ UNCHANGED <<tasks, apiRes>>
       ELSE CleanFails("files")
  /\ UNCHANGED <<runVars, fkOn, valResults, pureVars>>

\* CleanAllTasks: DELETE FROM tasks
CleanDeleteTasks ==
  /\ txn.open
  /\ txn.step = "tasks"
  /\ \E ok \in BOOLEAN :
       IF ok
       THEN /\ tasks' = <<>>
            /\ txn' = [txn EXCEPT !.step = "commit"]
            /\ UNCHANGED <<files, apiRes>>
       ELSE CleanFails("tasks")
  /\ UNCHANGED <<runVars, fkOn, valResults, pureVars>>

\* CleanAllTasks: tx.Commit()
CleanCommit ==
  /\ txn.open
  /\ txn.step = "commit"
  /\ \E ok \in BOOLEAN :
       IF ok
       THEN /\ txn' = NoTxn
            /\ apiRes' = Call("CleanAllTasks", 0, "", "")
            /\ UNCHANGED <<tasks, files>>
       ELSE CleanFails("commit")
  /\ UNCHANGED <<runVars, fkOn, valResults, pureVars>>

\* the process is killed inside the transaction: the uncommitted deletes
\* are not in the database file the next InitDB opens
CleanInterrupted ==
  /\ txn.open
  /\ tasks' = txn.tasks
  /\ files' = txn.files
  /\ apiRes' = Call("CleanAllTasks", 0, txn.step, "interrupted")
  /\ txn' = NoTxn
  /\ fkOn' = TRUE
  /\ UNCHANGED <<runVars, valResults, pureVars>>

NextLedger ==
  \/ ApiCreateTask
  \/ ApiUpdateTaskStatus
  \/ ApiUpdateTaskOutput
  \/ ApiUpdateTaskError
  \/ ApiSaveGeneratedFile
  \/ ConnRecycle
  \/ CleanBegin
  \/ CleanDeleteFiles
  \/ CleanDeleteTasks
  \/ CleanCommit
  \/ CleanInterrupted

SpecLedger == Init /\ [][NextLedger]_vars

\* ---------------------------------------------------------------------
\* The validation chain: ValidateAll over gofmt, go vet and go build

validateVars ==
  <<now, runs, tasks, files, disk, runID, cur, ctxDone, cleaned, errCause,
    llmCalls, result, summary, statusFile, runHist, cutOff, exitCode,
    fkOn, txn, apiRes, tagsResp, valReport, pureVars, audit, replies>>

\* ValidateAll: results = append(results, v.checkFormat(ctx))
CheckFormat ==
  /\ pc = "idle"
  /\ \E err \in RunErrs, stdout \in FmtStdouts :
       valResults' = Append(valResults, checkFormat(err, stdout))
  /\ pc' = "vet"
  /\ UNCHANGED validateVars

\* ValidateAll that returns after a failed format check
RunVetShortCircuit ==
  /\ pc = "vet"
  /\ IF valResults[Len(valResults)].Success
     THEN /\ \E err \in RunErrs, stderr \in Stderrs :
               valResults' = Append(valResults, runVet(err, stderr))
          /\ pc' = "build"
     ELSE /\ pc' = "validated"
          /\ UNCHANGED valResults
  /\ UNCHANGED validateVars

\* ValidateAll: results = append(results, v.runVet(ctx))
RunVet ==
  /\ pc = "vet"
  /\ \E err \in RunErrs, stderr \in Stderrs :
       valResults' = Append(valResults, runVet(err, stderr))
  /\ pc' = "build"
  /\ UNCHANGED validateVars

\* ValidateAll: results = append(results, v.tryBuild(ctx)); return results.
\* The error of go mod download is dropped.
TryBuild ==
  /\ pc = "build"
  /\ \E modOk \in BOOLEAN, err \in RunErrs, stderr \in Stderrs :
       valResults' = Append(valResults, tryBuild(err, stderr))
  /\ pc' = "validated"
  /\ UNCHANGED validateVars

NextValidate ==
  \/ CheckFormat
  \/ RunVet
  \/ TryBuild

SpecValidate == Init /\ [][NextValidate]_vars

\* ---------------------------------------------------------------------
\* cleanLLMOutput on its own, over raw texts built from a few kinds of line

\* blank, code, indented code, prose, fence, fence with language tag,
\* indented fence, a single backquote
LineSet ==
  { <<>>, <<"a">>, <<" ", "a">>, <<"x">>, Fence, Fence \o <<"g">>,
    <<" ">> \o Fence, <<BT>> }

RawTexts ==
  { JoinLines(ls) : ls \in UNION { [1..n -> LineSet] : n \in 1..MaxLines } }

InitClean ==
  /\ InitRun
  /\ replies = Responses
  /\ cleanIn \in RawTexts
  /\ cleanOut = <<>>
  /\ httpIn = NoExchange
  /\ httpOut = NoReply

cleanFrame ==
  <<now, runs, tasks, files, disk, pc, runID, cur, ctxDone, cleaned, errCause,
    llmCalls, result, summary, statusFile, runHist, cutOff, exitCode,
    fkOn, txn, apiRes, valResults, tagsResp, valReport, cleanIn, httpIn,
    httpOut, audit, replies>>

\* executeTask: cleaned := cleanLLMOutput(output)
Sanitize ==
  /\ cleanOut = <<>>
  /\ cleanOut' = <<cleanLLMOutput(cleanIn)>>
  /\ UNCHANGED cleanFrame

\* cleanLLMOutput applied to its own result
SanitizeAgain ==
  /\ Len(cleanOut) = 1
  /\ cleanOut' = Append(cleanOut, cleanLLMOutput(cleanOut[1]))
  /\ UNCHANGED cleanFrame

NextClean ==
  \/ Sanitize
  \/ SanitizeAgain

SpecClean == InitClean /\ [][NextClean]_vars

\* ---------------------------------------------------------------------
\* OllamaClient.Complete on its own, over the HTTP exchanges behind a call

\* context cancelled or not, request answered or not, HTTP status, body
\* decodable or not, the done flag and the response text of the body
Exchanges ==
  [ctxDone : BOOLEAN, sent : BOOLEAN, status : {200, 404, 500},
   decodes : BOOLEAN, done : BOOLEAN, response : {<<>>, <<"a">>}]

Reply(text, err) == [returned |-> TRUE, text |-> text, err |-> err]

\* Complete that does not look at the done flag
CompleteIgnoreDone(x) ==
  IF x.ctxDone \/ ~x.sent THEN Reply(<<>>, "failed to send request to Ollama")
  ELSE IF x.status # 200 THEN Reply(<<>>, "Ollama returned status")
  ELSE IF ~x.decodes THEN Reply(<<>>, "failed to decode response")
  ELSE Reply(x.response, "")

\* Complete: client.Do, the status check, Decode, the done check
Complete(x) ==
  IF x.ctxDone \/ ~x.sent THEN Reply(<<>>, "failed to send request to Ollama")
  ELSE IF x.status # 200 THEN Reply(<<>>, "Ollama returned status")
  ELSE IF ~x.decodes THEN Reply(<<>>, "failed to decode response")
  ELSE IF ~x.done THEN Reply(<<>>, "generation incomplete")
  ELSE Reply(x.response, "")

InitComplete ==
  /\ InitRun
  /\ replies = Responses
  /\ cleanIn = <<>>
  /\ cleanOut = <<>>
  /\ httpIn \in Exchanges
  /\ httpOut = NoReply

CompleteCall ==
  /\ ~httpOut.returned
  /\ httpOut' = Complete(httpIn)
  /\ UNCHANGED <<now, runs, tasks, files, disk, pc, runID, cur, ctxDone,
                 cleaned, errCause, llmCalls, result, summary, statusFile,
                 runHist, cutOff, exitCode, fkOn, txn, apiRes, valResults,
                 tagsResp, valReport, cleanIn, cleanOut, httpIn, audit,
                 replies>>

NextComplete == CompleteCall

SpecComplete == InitComplete /\ [][NextComplete]_vars

\* ----------------------------------------------------------------- claims
\* rows of the current run, by ordinal
HasRow(k) == CurID(k) \in DOMAIN tasks
Row(k) == tasks[CurID(k)]

\* GenerateTodoAPI has returned "task <id> (<type>) failed: ..."
TaskFailureReturned == pc = "returned" /\ result.kind = "task"

\* the failure causes claim C1 lists: prompt load, provider call, size
\* limit, save (artifact write or generated-file record)
ListedCauses == {"prompt", "llm", "size", "write", "record"}

\* C1: when the k-th task of a run fails by prompt load, provider call, size
\* limit or save, then at the return of GenerateTodoAPI tasks 1..k-1 are
\* complete with Output stored, task k is failed with a non-empty Error,
\* tasks k+1..4 are pending, the error names task k and its kind, and a
\* summary over a ledger without earlier rows counts completed = k-1 and
\* failed = 1.
C1_FailedRunLedger ==
  (TaskFailureReturned /\ result.cause \in ListedCauses) =>
    LET k == result.ord IN
    /\ k = cur
    /\ result.type = TaskTypes[k]
    /\ \A j \in 1..NumTasks : HasRow(j)
    /\ \A j \in 1..(k - 1) :
         Row(j).status = StatusComplete /\ Row(j).output.Valid
    /\ Row(k).status = StatusFailed
    /\ Row(k).error.Valid /\ Row(k).error.String # <<>>
    /\ \A j \in (k + 1)..NumTasks : Row(j).status = StatusPending
    /\ (DOMAIN tasks = {CurID(j) : j \in 1..NumTasks} =>
          /\ CountStatus(tasks, StatusComplete) = k - 1
          /\ CountStatus(tasks, StatusFailed) = 1)

\* executeTask has returned an error for task cur and the run is ending
TaskHasFailed == pc \in {"markFailed", "logError"} \/ TaskFailureReturned

\* C2: a failed task halts the run with no retry: after a task has failed
\* no later task of the run leaves pending and the run never goes back to
\* executing, and Complete is called at most once per task, at most four
\* times per run.
C2_HaltNoRetryInv ==
  /\ \A k \in 1..NumTasks : llmCalls[k] <= 1
  /\ llmCalls[1] + llmCalls[2] + llmCalls[3] + llmCalls[4] <= NumTasks
  /\ TaskHasFailed =>
       \A j \in (cur + 1)..NumTasks :
         HasRow(j) /\ Row(j).status = StatusPending /\ llmCalls[j] = 0

C2_HaltNoRetryStep ==
  /\ TaskHasFailed => pc' \in {"logError", "returned", "idle"}
  /\ \A id \in DOMAIN tasks :
       (tasks[id].status = StatusPending /\ tasks'[id].status # StatusPending)
         => (id = CurID(cur) /\ pc \in {"loop", "logError"})

C2_HaltNoRetry == [](C2_HaltNoRetryInv) /\ [][C2_HaltNoRetryStep]_vars

C2_Witness ==
  /\ TaskFailureReturned
  /\ result.ord = 2
  /\ result.cause = "llm"
  /\ llmCalls = [k \in 1..NumTasks |-> IF k <= 2 THEN 1 ELSE 0]
  /\ Row(3).status = StatusPending

\* pending < running < {complete, failed}
Rank(st) ==
  IF st = StatusPending THEN 0 ELSE IF st = StatusRunning THEN 1 ELSE 2

\* C3: whatever step fails, a status only moves forward along
\* pending -> running -> {complete | failed}; a complete task never
\* changes to failed or to any other status.  (Read generously: a step
\* may skip running, it may not go back and may not leave a final status.)
C3_StatusOnlyForward ==
  [][\A id \in DOMAIN tasks :
       /\ id \in DOMAIN tasks'
       /\ Rank(tasks'[id].status) >= Rank(tasks[id].status)
       /\ (Rank(tasks[id].status) = 2 => tasks'[id].status = tasks[id].status)]_vars

\* C4: in every ledger state a task whose status is complete has its
\* Output stored.
C4_CompleteHasOutput ==
  \A id \in DOMAIN tasks :
    tasks[id].status = StatusComplete => tasks[id].output.Valid

\* C5: when the deadline elapses while task k is in its provider call (and
\* the call returns the context's error), GenerateTodoAPI returns the
\* timeout error, not a task failure, and task k stays running.
C5_DeadlineInCallIsTimeout ==
  (pc = "returned" /\ cutOff # 0 /\ errCause = "llm") =>
    /\ result.kind = "timeout"
    /\ Row(cutOff).status = StatusRunning

\* C6: when the context is already Done as the loop is about to start a
\* task, GenerateTodoAPI returns the timeout error without calling the
\* provider and without a ledger write: that task and the later ones stay
\* pending with no Error, the earlier ones stay complete.
C6_DeadlineBeforeTaskInv ==
  (pc = "returned" /\ result.kind = "timeout") =>
    /\ \A j \in 1..(cur - 1) :
         HasRow(j) /\ Row(j).status = StatusComplete /\ Row(j).output.Valid
    /\ \A j \in cur..NumTasks :
         /\ HasRow(j)
         /\ Row(j).status = StatusPending
         /\ ~Row(j).error.Valid
         /\ llmCalls[j] = 0

C6_DeadlineBeforeTaskStep ==
  (pc = "loop" /\ cur <= NumTasks /\ ctxDone) =>
    /\ pc' = "returned"
    /\ result'.kind = "timeout"
    /\ tasks' = tasks
    /\ files' = files
    /\ disk' = disk
    /\ llmCalls' = llmCalls

C6_DeadlineBeforeTask ==
  [](C6_DeadlineBeforeTaskInv) /\ [][C6_DeadlineBeforeTaskStep]_vars

C6_Witness ==
  /\ pc = "returned"
  /\ result.kind = "timeout"
  /\ cur = 3
  /\ Row(2).status = StatusComplete
  /\ Row(3).status = StatusPending

\* the task identities an invocation with run identifier r produces
RunIdentities(r) == {TaskID(r, k) : k \in 1..NumTasks}

\* C7: any two invocations against the same ledger produce disjoint sets
\* of task identities, so task creation never fails on a duplicate.
C7_RunIdentitiesDisjoint ==
  /\ \A i, j \in DOMAIN runHist :
       i # j => RunIdentities(runHist[i]) \cap RunIdentities(runHist[j]) = {}
  /\ ~(pc = "returned" /\ result.kind = "create" /\ result.cause = "duplicate")

\* positions of GenerateTodoAPI after the loop that stores the task list
ExecPCs ==
  {"loop", "loadPrompt", "callLLM", "inLLM", "markFailed", "writeFile",
   "recordFile", "setComplete", "setOutput", "logError"}

\* C8: all four rows of a run are in the ledger, each pending, before any
\* task is set to running and before the first provider call.
C8_RowsBeforeExecutionInv ==
  /\ pc = "create" =>
       /\ \A j \in 1..(cur - 1) : HasRow(j) /\ Row(j).status = StatusPending
       /\ \A j \in 1..NumTasks : llmCalls[j] = 0
  /\ pc \in ExecPCs => \A j \in 1..NumTasks : HasRow(j)

C8_RowsBeforeExecutionStep ==
  /\ (pc = "create" /\ pc' = "loop") =>
       \A j \in 1..NumTasks :
         /\ TaskID(runID, j) \in DOMAIN tasks'
         /\ tasks'[TaskID(runID, j)].status = StatusPending
  /\ ((\E j \in 1..NumTasks : llmCalls'[j] > llmCalls[j])
        \/ (\E id \in DOMAIN tasks :
              tasks[id].status # StatusRunning /\ tasks'[id].status = StatusRunning))
       => (pc \in ExecPCs /\ \A j \in 1..NumTasks : HasRow(j))

C8_RowsBeforeExecution ==
  [](C8_RowsBeforeExecutionInv) /\ [][C8_RowsBeforeExecutionStep]_vars

C8_Witness ==
  /\ pc = "inLLM"
  /\ cur = 1
  /\ llmCalls[1] = 1
  /\ Row(1).status = StatusRunning
  /\ \A j \in 2..NumTasks : HasRow(j) /\ Row(j).status = StatusPending

\* C9: whenever GenerateTodoAPI returns an error naming a task as failed,
\* the ledger shows that task failed with a non-empty Error and no other
\* task of the run failed.
C9_ErrorMatchesLedger ==
  TaskFailureReturned =>
    /\ HasRow(result.ord)
    /\ Row(result.ord).status = StatusFailed
    /\ Row(result.ord).error.Valid
    /\ Row(result.ord).error.String # <<>>
    /\ \A j \in 1..NumTasks :
         (j # result.ord /\ HasRow(j)) => Row(j).status # StatusFailed

\* C10: PrintSummary prints the success message only if no row of the
\* ledger has status failed.
C10_SuccessOnlyWithoutFailed ==
  (summary.shown /\ summary.success) =>
    \A id \in DOMAIN tasks : tasks[id].status # StatusFailed

C10_Witness ==
  /\ summary.shown
  /\ summary.success
  /\ summary.total = NumTasks
  /\ \A id \in DOMAIN tasks : tasks[id].status = StatusComplete

\* ---------------------------------------------------------------------
\* C11: when GenerateTodoAPI returned an error (the process exits 1), the
\* summary the CLI printed does not carry the success line "All tasks
\* completed successfully!", whatever rows the ledger holds.
C11_NoSuccessAfterError ==
  (pc = "idle" /\ exitCode = 1 /\ summary.shown) => ~summary.success

\* ---------------------------------------------------------------------
\* the sanitized body of the fenced response every provider call returns
FencedBody == cleanLLMOutput(RespFenced)

\* run runID ended without error and wrote the status snapshot itself
EndedOk ==
  /\ pc = "returned"
  /\ result.kind = "ok"
  /\ statusFile.written
  /\ statusFile.timestamp = Unix(now)

\* the four tasks of the run are complete and artifact, GeneratedFile and
\* Output all hold the sanitized body
FourArtifactsAgree ==
  \A k \in 1..NumTasks :
    /\ HasRow(k)
    /\ Row(k).status = StatusComplete
    /\ Row(k).output = Str(FencedBody)
    /\ disk[k] = Str(FencedBody)
    /\ \E i \in DOMAIN files : files[i].task_id = CurID(k)
    /\ \A i \in DOMAIN files :
         files[i].task_id = CurID(k) => files[i].content = FencedBody

\* C12 as stated: a run whose provider calls all return a fenced block
\* ends with four complete tasks whose artifact, GeneratedFile and Output
\* agree on the sanitized body, and a status snapshot reporting 4 completed
\* and 0 failed.
C12_EndToEnd ==
  EndedOk =>
    /\ FourArtifactsAgree
    /\ statusFile.completed = NumTasks
    /\ statusFile.failed = 0

\* ---------------------------------------------------------------------
\* a direct call of Storage method op returns in this step
Returns(op) == apiRes'.n = apiRes.n + 1 /\ apiRes'.op = op

\* C13: CreateTask with an identity the ledger already holds fails, and the
\* ledger is unchanged: one row for the identity, every field as before.
C13_DuplicateCreateFails ==
  [][(Returns("CreateTask") /\ apiRes'.id \in DOMAIN tasks)
       => (apiRes'.err # "" /\ tasks' = tasks)]_vars

C13_Witness ==
  /\ apiRes.op = "CreateTask"
  /\ apiRes.err = "constraint"
  /\ apiRes.id \in DOMAIN tasks
  /\ tasks[apiRes.id].status # apiRes.arg

\* C14: SaveGeneratedFile with a task identity that has no row fails and
\* leaves files_generated unchanged, at any point in the life of the handle.
C14_OrphanFileRejected ==
  [][(Returns("SaveGeneratedFile") /\ apiRes'.id \notin DOMAIN tasks)
       => (apiRes'.err # "" /\ files' = files)]_vars

\* C15: CleanAllTasks is atomic: when it returns nil both tables are empty;
\* when it fails at begin, after deleting files, after deleting tasks or at
\* commit, or is interrupted, both tables hold the rows they held at the
\* call.
C15_CleanAtomic ==
  [][Returns("CleanAllTasks") =>
       IF apiRes'.err = ""
       THEN tasks' = <<>> /\ files' = <<>>
       ELSE IF txn.open
            THEN tasks' = txn.tasks /\ files' = txn.files
            ELSE tasks' = tasks /\ files' = files]_vars

C15_Witness ==
  /\ apiRes.op = "CleanAllTasks"
  /\ apiRes.err = "exec"
  /\ apiRes.arg = "commit"
  /\ DOMAIN tasks # {}
  /\ files # <<>>

\* C16: UpdateTaskStatus with an identity that has no row returns a
\* not-found error and leaves the ledger unchanged.
C16_StatusOfAbsentFails ==
  [][(Returns("UpdateTaskStatus") /\ apiRes'.id \notin DOMAIN tasks)
       => (apiRes'.err # "" /\ tasks' = tasks)]_vars

\* C17: a successful UpdateTaskError on an existing task sets Error to the
\* message and status to failed in the same step, whatever the status was,
\* and leaves Output, Input and kind of the task and all other rows alone.
C17_ErrorForcesFailed ==
  [][(Returns("UpdateTaskError") /\ apiRes'.err = ""
        /\ apiRes'.id \in DOMAIN tasks)
       => /\ DOMAIN tasks' = DOMAIN tasks
          /\ tasks'[apiRes'.id].error = Str(SomeError)
          /\ tasks'[apiRes'.id].status = StatusFailed
          /\ tasks'[apiRes'.id].output = tasks[apiRes'.id].output
          /\ tasks'[apiRes'.id].input = tasks[apiRes'.id].input
          /\ tasks'[apiRes'.id].type = tasks[apiRes'.id].type
          /\ \A id \in DOMAIN tasks \ {apiRes'.id} : tasks'[id] = tasks[id]]_vars

C17_Witness ==
  /\ apiRes.op = "UpdateTaskError"
  /\ apiRes.err = ""
  /\ apiRes.id \in DOMAIN tasks
  /\ tasks[apiRes.id].status = StatusFailed
  /\ tasks[apiRes.id].error = Str(SomeError)
  /\ tasks[apiRes.id].output = Str(SomeOutput)

\* C18: a row CreateTask has just inserted is pending, whatever Status the
\* caller passed, and has neither Output nor Error.
C18_CreatedRowPending ==
  [][(Returns("CreateTask") /\ apiRes'.err = "")
       => /\ apiRes'.id \in DOMAIN tasks'
          /\ tasks'[apiRes'.id].status = StatusPending
          /\ tasks'[apiRes'.id].output = Null
          /\ tasks'[apiRes'.id].error = Null]_vars

\* C19: ValidateAll returns exactly three results, gofmt then go vet then
\* go build, for every combination of outcomes of the three checks.
C19_ThreeResultsInOrder ==
  pc = "validated" =>
    /\ Len(valResults) = 3
    /\ valResults[1].Tool = "gofmt"
    /\ valResults[2].Tool = "go vet"
    /\ valResults[3].Tool = "go build"

C19_Witness ==
  /\ pc = "validated"
  /\ Len(valResults) = 3
  /\ ~valResults[1].Success
  /\ ~valResults[2].Success
  /\ valResults[3].Success

\* C20: in every result of the chain Error is non-nil exactly when Success
\* is false.
C20_ErrorIffFailure ==
  \A i \in DOMAIN valResults :
    (valResults[i].Error # NilError) <=> ~valResults[i].Success

\* ---------------------------------------------------------------------
\* C21: validation never changes the result of the run. GenerateTodoAPI
\* goes from its file checks to the status file and returns nil whatever
\* the checks found, and a process that reached main's validation stage
\* exits 0 whatever ValidateAll and FormatCode reported; exit status 1
\* comes only from a failed InitDB, HealthCheck or GenerateTodoAPI.
C21_ValidationNeverFailsInv ==
  /\ (pc = "idle" /\ valReport.decided) => exitCode = 0
  /\ (pc = "idle" /\ exitCode = 1) => ~valReport.decided

C21_ValidationNeverFailsStep ==
  /\ pc = "validate" => pc' = "writeStatus"
  /\ pc = "writeStatus" => (pc' = "returned" /\ result'.kind = "ok")
  /\ (pc = "returned" /\ result.kind = "ok") => pc' = "summary"
  /\ pc = "summary" => (pc' = "idle" /\ exitCode' = 0)

C21_ValidationNeverFails ==
  [](C21_ValidationNeverFailsInv) /\ [][C21_ValidationNeverFailsStep]_vars

C21_Witness ==
  /\ pc = "idle"
  /\ exitCode = 0
  /\ valReport.ran
  /\ ~valReport.allPassed
  /\ ~valReport.formatted

\* C22: the status snapshot is written only after the validation chain
\* (gofmt, go vet, go build) has run in this process.
C22_SnapshotAfterChain ==
  [][statusFile' # statusFile => valReport.ran]_vars

\* ---------------------------------------------------------------------
\* the lines of the raw text, and the two readings of "fence-marker line"
InLines == SplitLines(cleanIn)
StartsWithFence(line) == HasPrefix(line, Fence)
MarkerLine(line) == HasPrefix(TrimSpace(line), Fence)

\* prose is written with the letter x in the raw texts of the model
HasProse(s) == \E i \in DOMAIN s : s[i] = "x"

\* the whitespace-trimmed text of lines a..b
BodyOf(lines, a, b) == TrimSpace(JoinLines(SubSeq(lines, a, b)))

\* C23 as stated: the raw text is an opening fence line with a language
\* tag, body lines none of which starts with the fence marker, a closing
\* fence line at c, then prose without a line that starts with the fence
\* marker; cleanLLMOutput returns exactly the trimmed body.
C23_OneBlockLiteral ==
  \A c \in 2..(Len(InLines) - 1) :
    ( /\ Len(cleanOut) >= 1
      /\ StartsWithFence(InLines[1]) /\ Len(InLines[1]) > Len(Fence)
      /\ \A i \in 2..(c - 1) : ~StartsWithFence(InLines[i])
      /\ StartsWithFence(InLines[c])
      /\ \A i \in (c + 1)..Len(InLines) : ~StartsWithFence(InLines[i])
      /\ \E i \in (c + 1)..Len(InLines) : HasProse(InLines[i]) )
    => cleanOut[1] = BodyOf(InLines, 2, c - 1)

\* the same shape, a fence-marker line being a line whose trimmed form
\* starts with the fence marker
OneBlockAt(c) ==
  /\ c \in 2..(Len(InLines) - 1)
  /\ MarkerLine(InLines[1]) /\ Len(TrimSpace(InLines[1])) > Len(Fence)
  /\ \A i \in 2..(c - 1) : ~MarkerLine(InLines[i])
  /\ MarkerLine(InLines[c])
  /\ \A i \in (c + 1)..Len(InLines) : ~MarkerLine(InLines[i])
  /\ \E i \in (c + 1)..Len(InLines) : HasProse(InLines[i])

\* C23 amended: when no body line and no prose line has a trimmed form that
\* starts with the fence marker, cleanLLMOutput returns exactly the trimmed
\* body.
C23_OneBlockTrimmed ==
  \A c \in 1..MaxLines + 1 :
    (Len(cleanOut) >= 1 /\ OneBlockAt(c))
      => cleanOut[1] = BodyOf(InLines, 2, c - 1)

C23_Witness ==
  /\ Len(cleanOut) >= 1
  /\ OneBlockAt(3)
  /\ Len(InLines) > 3
  /\ cleanOut[1] = <<"a">>

\* three backquotes in a row occur nowhere in the text
NoFenceMarker(s) ==
  \A i \in 1..(Len(s) - 2) : SubSeq(s, i, i + 2) # Fence

\* C24: on a raw text without fence marker a second cleanLLMOutput changes
\* nothing.
C24_Idempotent ==
  (Len(cleanOut) = 2 /\ NoFenceMarker(cleanIn)) => cleanOut[2] = cleanOut[1]

\* the raw text holds one fenced block from line o to line c, and prose or
\* blank lines around it
BlockWithProse(o, c) ==
  /\ o < c
  /\ c <= Len(InLines)
  /\ MarkerLine(InLines[o])
  /\ MarkerLine(InLines[c])
  /\ \A i \in (o + 1)..(c - 1) : ~MarkerLine(InLines[i]) /\ ~HasProse(InLines[i])
  /\ \A i \in (1..(o - 1)) \cup ((c + 1)..Len(InLines)) :
       InLines[i] \in {<<>>, <<"x">>}

\* C25: for a raw text with a fenced block and prose before it, after it or
\* both, the result holds none of the prose and no fence-marker line.
C25_ProseDiscarded ==
  \A o \in 1..MaxLines + 1, c \in 1..MaxLines + 1 :
    (Len(cleanOut) >= 1 /\ BlockWithProse(o, c))
      => /\ ~HasProse(cleanOut[1])
         /\ \A i \in DOMAIN SplitLines(cleanOut[1]) :
              ~MarkerLine(SplitLines(cleanOut[1])[i])

\* the reference: drop the marker lines, keep a line exactly when an odd
\* number of marker lines precede it
MarkersBefore(lines, i) ==
  Cardinality({j \in 1..(i - 1) : MarkerLine(lines[j])})

RECURSIVE RefKeep(_, _)
RefKeep(lines, i) ==
  IF i > Len(lines) THEN <<>>
  ELSE IF ~MarkerLine(lines[i]) /\ MarkersBefore(lines, i) % 2 = 1
       THEN <<lines[i]>> \o RefKeep(lines, i + 1)
       ELSE RefKeep(lines, i + 1)

Reference(raw) == TrimSpace(JoinLines(RefKeep(SplitLines(raw), 1)))

\* C29: for a raw text whose trimmed form begins with the fence marker,
\* cleanLLMOutput equals the reference.
C29_EqualsReference ==
  (Len(cleanOut) >= 1 /\ HasPrefix(TrimSpace(cleanIn), Fence))
    => cleanOut[1] = Reference(cleanIn)

C29_Witness ==
  /\ Len(cleanOut) >= 1
  /\ HasPrefix(TrimSpace(cleanIn), Fence)
  /\ MarkersBefore(InLines, Len(InLines)) = 3
  /\ ~MarkerLine(InLines[Len(InLines)])
  /\ cleanOut[1] = <<"a">>

\* ---------------------------------------------------------------------
\* C26: when the sanitized output of a task exceeds MaxOutputSize the run
\* returns the size error, the task is failed, and the oversized text is
\* in no artifact file, in no GeneratedFile row and not in the Output.
C26_OversizeNotPersisted ==
  (pc = "returned" /\ result.kind = "task" /\ result.cause = "size")
    => /\ HasRow(result.ord)
       /\ Row(result.ord).status = StatusFailed
       /\ Row(result.ord).output = Null
       /\ \A i \in DOMAIN files : files[i].task_id # CurID(result.ord)
       /\ \A k \in 1..NumTasks : disk[k] # Str(cleanLLMOutput(RespLarge))

\* the exchange is one in which the provider delivered a finished answer
Delivered(x) ==
  ~x.ctxDone /\ x.sent /\ x.status = 200 /\ x.decodes /\ x.done

\* C27: Complete returns the response text and no error exactly when the
\* request was answered with status 200, the body decoded and done is true;
\* otherwise it returns an error and the empty text.
C27_CompleteAllOrNothing ==
  httpOut.returned =>
    IF Delivered(httpIn)
    THEN httpOut.err = "" /\ httpOut.text = httpIn.response
    ELSE httpOut.err # "" /\ httpOut.text = <<>>

C27_Witness ==
  /\ httpOut.returned
  /\ httpIn.sent /\ ~httpIn.ctxDone /\ httpIn.status = 200 /\ httpIn.decodes
  /\ ~httpIn.done
  /\ httpIn.response # <<>>
  /\ httpOut.err # ""
  /\ httpOut.text = <<>>

\* C28: HealthCheck passes exactly when the tags endpoint answers 200 and
\* lists the configured model; when it fails the process exits 1 and has
\* neither created a task row nor called Complete.
C28_HealthGateInv ==
  pc \in {"idle", "health", "start"} => \A k \in 1..NumTasks : llmCalls[k] = 0

C28_HealthGateStep ==
  pc = "health" =>
    /\ (pc' = "start") <=>
         (tagsResp.sent /\ tagsResp.status = 200 /\ Model \in tagsResp.models)
    /\ pc' # "start" =>
         (pc' = "idle" /\ exitCode' = 1 /\ tasks' = tasks /\ files' = files
            /\ llmCalls' = llmCalls)

C28_HealthGate ==
  [](C28_HealthGateInv) /\ [][C28_HealthGateStep]_vars

C28_Witness ==
  /\ pc = "idle"
  /\ exitCode = 1
  /\ tagsResp.status = 200
  /\ tagsResp.decodes
  /\ tagsResp.models = {"codellama"}
  /\ runs = 0
  /\ tasks = <<>>

\* the tasks of run r that are running
RunningOf(r) ==
  {k \in 1..NumTasks :
     TaskID(r, k) \in DOMAIN tasks /\ tasks[TaskID(r, k)].status = StatusRunning}

\* C30: at most one task of a run is running, and task k becomes running
\* only when tasks 1..k-1 of the run are complete.
C30_SequentialInv ==
  \A r \in 0..Unix(MaxTick) : Cardinality(RunningOf(r)) <= 1

C30_SequentialStep ==
  \A k \in 1..NumTasks :
    ( /\ HasRow(k)
      /\ Row(k).status # StatusRunning
      /\ tasks'[CurID(k)].status = StatusRunning )
    => \A j \in 1..(k - 1) : HasRow(j) /\ Row(j).status = StatusComplete

C30_Sequential ==
  [](C30_SequentialInv) /\ [][C30_SequentialStep]_vars

C30_Witness ==
  /\ pc = "loadPrompt"
  /\ cur = 3
  /\ Row(3).status = StatusRunning
  /\ Row(1).status = StatusComplete
  /\ Row(2).status = StatusComplete

\* ---------------------------------------------------------------------
\* C31: the post-generation steps (entry-point stub, module descriptor,
\* README) start only after all four tasks of the run are complete, run in
\* that order and end before validation; when one of them fails
\* GenerateTodoAPI returns an error, neither the validation nor the write of
\* the status snapshot happens, and the four tasks stay complete.
PostPCs == {"genMain", "genGoMod", "genREADME"}

AllFourComplete ==
  \A k \in 1..NumTasks : HasRow(k) /\ Row(k).status = StatusComplete

C31_PostStepsInv ==
  /\ pc \in PostPCs \cup {"validate"} => AllFourComplete
  /\ (pc = "returned" /\ result.kind = "post") => AllFourComplete

C31_PostStepsStep ==
  /\ (pc' = "genMain" /\ pc # "genMain") => (pc = "loop" /\ cur > NumTasks)
  /\ (pc' = "genGoMod" /\ pc # "genGoMod") => pc = "genMain"
  /\ (pc' = "genREADME" /\ pc # "genREADME") => pc = "genGoMod"
  /\ (pc' = "validate" /\ pc # "validate") => pc = "genREADME"
  /\ (pc \in PostPCs /\ pc' = "returned") =>
       /\ result'.kind = "post"
       /\ tasks' = tasks
       /\ statusFile' = statusFile
  /\ (pc = "returned" /\ result.kind = "post") =>
       /\ pc' \in {"returned", "idle"}
       /\ tasks' = tasks
       /\ statusFile' = statusFile
       /\ ~valReport'.decided

C31_PostSteps == [](C31_PostStepsInv) /\ [][C31_PostStepsStep]_vars

\* the module descriptor could not be written after the stub was written
C31_Witness ==
  /\ pc = "returned"
  /\ result.kind = "post"
  /\ result.cause = "go.mod"
  /\ AllFourComplete

\* ---------------------------------------------------------------------
\* C32: when the prompt template of a task cannot be loaded the provider is
\* not called for that task, no artifact is written and no GeneratedFile row
\* is recorded for it, and when the run returns the task is failed with the
\* prompt-load error stored as its Error.
C32_PromptLoadFailure ==
  (pc = "returned" /\ result.kind = "task" /\ result.cause = "prompt")
    => /\ llmCalls[result.ord] = 0
       /\ result.ord \notin audit.wrote
       /\ \A i \in DOMAIN files : files[i].task_id # CurID(result.ord)
       /\ HasRow(result.ord)
       /\ Row(result.ord).status = StatusFailed
       /\ Row(result.ord).error = Str(<<"prompt">>)

\* ---------------------------------------------------------------------
\* C33: a response that sanitizes to the empty text is not an error.
\* cleanLLMOutput of the empty text is the empty text; the task reaches
\* complete with an empty Output, an empty artifact file and a GeneratedFile
\* row with empty content, and the run goes on with the next task.
EmptyRecorded(k) ==
  /\ HasRow(k)
  /\ Row(k).status = StatusComplete
  /\ Row(k).output = Str(<<>>)
  /\ disk[k] = Str(<<>>)
  /\ \E i \in DOMAIN files :
       /\ files[i].task_id = CurID(k)
       /\ files[i].content = <<>>

C33_EmptyOutputInv ==
  /\ cleanLLMOutput(<<>>) = <<>>
  /\ \A r \in replies : cleanLLMOutput(r) = <<>>
  /\ pc \in ExecPCs \cup PostPCs => \A k \in 1..(cur - 1) : EmptyRecorded(k)
  /\ errCause \notin {"size", "empty"}

C33_EmptyOutputStep ==
  /\ (pc = "inLLM" /\ pc' # "inLLM") =>
        \/ pc' = "markFailed"
        \/ pc' = "writeFile" /\ cleaned' = <<>>
  /\ (pc = "setOutput" /\ pc' = "loop") =>
        /\ cur' = cur + 1
        /\ cleaned = <<>>
        /\ tasks'[CurID(cur)].status = StatusComplete
        /\ tasks'[CurID(cur)].output = Str(<<>>)

C33_EmptyOutput == [](C33_EmptyOutputInv) /\ [][C33_EmptyOutputStep]_vars

\* the first task is complete with empty output and the second has started
C33_Witness ==
  /\ replies = EmptyReplies
  /\ pc = "loadPrompt"
  /\ cur = 2
  /\ EmptyRecorded(1)
  /\ Row(2).status = StatusRunning

\* ---------------------------------------------------------------------
\* C34: after any sequence of ledger operations every files_generated row
\* references a task row that exists, and outside CleanAllTasks the table
\* only grows at its end: no existing row is updated or deleted.
C34_FilesReferenceTasks ==
  \A i \in DOMAIN files : files[i].task_id \in DOMAIN tasks

C34_FilesAppendOnly ==
  (~txn.open /\ ~txn'.open) =>
     /\ Len(files') >= Len(files)
     /\ SubSeq(files', 1, Len(files)) = files

C34_FilesIntegrity == [](C34_FilesReferenceTasks) /\ [][C34_FilesAppendOnly]_vars

\* ---------------------------------------------------------------------
\* C35: the files_generated rows of a run correspond one to one to the
\* artifact files the run has written: each task of the run has at most one
\* row, a complete task has exactly one, and no artifact the run wrote is
\* without its row. Stated outside saveOutput (between its file write and
\* its ledger write the row is still to come).
RowsOf(k) == {i \in DOMAIN files : files[i].task_id = CurID(k)}

C35_RowsMatchArtifacts ==
  (pc \notin {"idle", "health", "start", "recordFile"}) =>
    \A k \in 1..NumTasks :
      /\ Cardinality(RowsOf(k)) <= 1
      /\ (HasRow(k) /\ Row(k).status = StatusComplete) => Cardinality(RowsOf(k)) = 1
      /\ k \in audit.wrote => Cardinality(RowsOf(k)) = 1

\* ---------------------------------------------------------------------
\* C36: every invocation of GenerateTodoAPI eventually returns, given that
\* the provider call returns or honours cancellation and that ledger and
\* filesystem operations return; and once the context is done no further
\* task is started.
InRunPCs == {"create", "validate", "writeStatus"} \cup ExecPCs \cup PostPCs

C36_NoTaskAfterDeadline ==
  ctxDone =>
    /\ \A id \in DOMAIN tasks' :
         tasks'[id].status = StatusRunning =>
           (id \in DOMAIN tasks /\ tasks[id].status = StatusRunning)
    /\ (pc = "loop" /\ cur <= NumTasks /\ pc' # "loop") =>
         (pc' = "returned" /\ result'.kind = "timeout")

C36_Terminates ==
  /\ (pc \in InRunPCs) ~> (pc = "returned")
  /\ [][C36_NoTaskAfterDeadline]_vars

\* a run that executed a task, then saw its deadline elapsed and returned
C36_Witness ==
  /\ pc = "returned"
  /\ result.kind = "timeout"
  /\ cur >= 2
  /\ ctxDone

\* ---------------------------------------------------------------------
\* C37: when GenerateTodoAPI has returned and every ledger write it
\* attempted succeeded, no task of the run is running: each is pending,
\* complete or failed, also when the provider call was cut off by the
\* deadline.
C37_NoneLeftRunning ==
  (pc = "returned" /\ result.kind # "mkdir" /\ ~audit.dbFault) =>
    \A k \in 1..NumTasks :
      HasRow(k) =>
        Row(k).status \in {StatusPending, StatusComplete, StatusFailed}

\* the deadline passed inside the provider call of the second task and
\* the run returned with that task failed
C37_Witness ==
  /\ pc = "returned"
  /\ result.kind = "task"
  /\ result.cause = "llm"
  /\ cutOff = 2
  /\ ~audit.dbFault
  /\ Row(2).status = StatusFailed
  /\ Row(1).status = StatusComplete

\* ---------------------------------------------------------------------
\* C38: when CreateTask fails for the k-th task of a run GenerateTodoAPI
\* returns at once; the k-1 rows the run created stay in the ledger as
\* pending rows and never change afterwards, no task is set to running,
\* the provider is not called and no artifact is written.
C38_CreateFailureInv ==
  (pc = "returned" /\ result.kind = "create") =>
    /\ \A j \in 1..(result.ord - 1) :
         /\ HasRow(j)
         /\ Row(j).status = StatusPending
         /\ Row(j).output = Null
         /\ Row(j).error = Null
    /\ \A j \in 1..NumTasks : llmCalls[j] = 0
    /\ audit.wrote = {}

C38_CreateFailureStep ==
  /\ (pc = "create" /\ pc' = "returned") =>
       /\ result'.kind = "create"
       /\ result'.ord = cur
       /\ tasks' = tasks
  /\ pc = "create" =>
       /\ \A id \in DOMAIN tasks : id \in DOMAIN tasks' /\ tasks'[id] = tasks[id]
       /\ \A id \in DOMAIN tasks' \ DOMAIN tasks : tasks'[id].status = StatusPending
       /\ files' = files
       /\ disk' = disk
  /\ (pc = "returned" /\ result.kind = "create") =>
       /\ pc' \in {"returned", "idle"}
       /\ tasks' = tasks
       /\ files' = files
       /\ disk' = disk
  /\ \A id \in DOMAIN tasks :
       TaskID(id.run, NumTasks) \notin DOMAIN tasks' =>
         (id \in DOMAIN tasks' /\ tasks'[id] = tasks[id])

C38_CreateFailure == [](C38_CreateFailureInv) /\ [][C38_CreateFailureStep]_vars

\* the third insert failed: two pending rows of the run stay behind
C38_Witness ==
  /\ pc = "returned"
  /\ result.kind = "create"
  /\ result.ord = 3
  /\ Row(1).status = StatusPending
  /\ Row(2).status = StatusPending
  /\ ~HasRow(3)
  /\ ~HasRow(4)

\* ---------------------------------------------------------------------
\* C39: PrintSummary and the status.json snapshot count over every row of
\* the ledger, rows of earlier runs included: total is the number of rows,
\* completed and failed are the numbers of rows with these statuses, the
\* snapshot's completed flag is true exactly when every row is complete,
\* and neither operation changes a ledger row.
RowsWith(st) == {id \in DOMAIN tasks : tasks[id].status = st}

CountsOfLedger(rec) ==
  /\ rec.total = Cardinality(DOMAIN tasks)
  /\ rec.completed = Cardinality(RowsWith(StatusComplete))
  /\ rec.failed = Cardinality(RowsWith(StatusFailed))

C39_CountsWholeLedgerStep ==
  /\ (pc = "writeStatus" /\ pc' # "writeStatus") =>
       /\ tasks' = tasks
       /\ files' = files
       /\ statusFile' # statusFile =>
            /\ CountsOfLedger(statusFile')
            /\ statusFile'.completed_flag <=>
                 \A id \in DOMAIN tasks : tasks[id].status = StatusComplete
  /\ (pc \in {"returned", "summary"} /\ pc' = "idle") =>
       /\ tasks' = tasks
       /\ files' = files
       /\ summary'.shown => CountsOfLedger(summary')

C39_CountsWholeLedger == [][C39_CountsWholeLedgerStep]_vars

\* the summary of a complete second run counts the rows a failed first run
\* left behind, and the snapshot of the second run is not flagged completed
C39_Witness ==
  /\ pc = "idle"
  /\ summary.shown
  /\ summary.total = 2 * NumTasks
  /\ summary.completed = NumTasks
  /\ summary.failed = 1
  /\ statusFile.written
  /\ statusFile.total = 2 * NumTasks
  /\ ~statusFile.completed_flag

====
